---- MODULE Spec2Model ----
(***************************************************************************)
(* Model of the action dispatcher and the instruction parser of           *)
(* phone_agent (actions/handler.py) and of the process-wide timing table   *)
(* the dispatcher reads (config/timing.py).                                *)
(*                                                                         *)
(* One call of ActionHandler.execute is one action: it takes a structured  *)
(* command, the screen size and the behaviour of the collaborators during  *)
(* that call (device surface, confirmation and takeover callbacks), and    *)
(* leaves the ordered log of the calls it made and its outcome.  One call  *)
(* of parse_action is one action: it takes an instruction text and leaves  *)
(* the command it returned or the error it raised.                         *)
(*                                                                         *)
(* Two further specifications cover what surrounds the dispatcher: Startup *)
(* is the construction of the timing table from the environment when       *)
(* config/timing.py is imported, and WebUI is the task runner of web_ui.py *)
(* (the request handlers execute_task and stop_task on the event loop and  *)
(* the worker threads of run_task_execution), one step per shared access.  *)
(***************************************************************************)
EXTENDS Integers, Sequences, FiniteSets, TLC

VARIABLES
    pc,             \* "idle": between calls; "returned" / "raised": after an
                    \* execute call; "parsed" / "parse_failed": after a
                    \* parse_action call; "updated": after an
                    \* update_timing_config call; "starting" / "failed":
                    \* before and after an import of timing.py that raised
    TIMING_CONFIG,  \* the global timing table (timing.py:116)
    action,         \* the command of the last execute call
    screen,         \* <<screen_width, screen_height>> of the last execute call
    events,         \* the calls the last execute made, in order
    outcome,        \* how the last execute call ended
    instruction,    \* the text of the last parse_action call
    command,        \* how the last parse_action call ended
    update,         \* the arguments of the last update_timing_config call and
                    \* the table before it (NoConfig when the last call was
                    \* not one)
    configured,     \* the action group last installed by update_timing_config
    environ,        \* os.environ: the PHONE_AGENT_* variables that are set
    executions,     \* web_ui.executions, in order of insertion (web_ui.py:61)
    threads,        \* where the worker thread of each execution is
    request,        \* the request handler the event loop is running
    reply           \* the last response a request handler gave

vars ==
    <<pc, TIMING_CONFIG, action, screen, events, outcome, instruction, command,
      update, configured, environ, executions, threads, request, reply>>

-----------------------------------------------------------------------------
(* Python values.  A value is a record [t, v, s]: t the Python type name,   *)
(* v the integers it holds, s the string it holds.  A bool holds 1 or 0, a  *)
(* float its thousandths; a tuple, a set and a list of anything but         *)
(* integers hold their items' values in v, a dict its <<key, value>> pairs. *)

PyNone == [t |-> "NoneType", v |-> <<>>, s |-> ""]
PyStr(str) == [t |-> "str", v |-> <<>>, s |-> str]
PyInt(n) == [t |-> "int", v |-> <<n>>, s |-> ""]
PyList(ns) == [t |-> "list", v |-> ns, s |-> ""]
\* a list holding one string, e.g. ["Tap"]
PyStrList(str) == [t |-> "list[str]", v |-> <<>>, s |-> str]

IsList(x) == x.t \in {"list", "list[str]", "list[object]"}

\* bool(x)
Truthy(x) ==
    CASE x.t = "NoneType" -> FALSE
      [] x.t = "str" -> x.s # ""
      [] x.t = "int" -> x.v[1] # 0
      [] x.t \in {"bool", "float"} -> x.v[1] # 0
      [] x.t \in {"list", "list[object]", "tuple", "set", "dict"} -> Len(x.v) > 0
      [] OTHER -> TRUE

RECURSIVE Hashable(_)
\* hash(x) succeeds
Hashable(x) ==
    /\ ~IsList(x)
    /\ x.t \notin {"set", "dict"}
    /\ x.t = "tuple" => \A i \in 1..Len(x.v) : Hashable(x.v[i])

\* type(x).__name__
TypeName(x) == IF IsList(x) THEN "list" ELSE x.t

Digit(d) == SubSeq("0123456789", d + 1, d + 1)

RECURSIVE NatToStr(_)
NatToStr(n) == IF n < 10 THEN Digit(n) ELSE NatToStr(n \div 10) \o Digit(n % 10)

IntToStr(n) == IF n < 0 THEN "-" \o NatToStr(-n) ELSE NatToStr(n)

RECURSIVE JoinInts(_)
JoinInts(ns) ==
    IF Len(ns) = 0 THEN ""
    ELSE IF Len(ns) = 1 THEN IntToStr(ns[1])
    ELSE IntToStr(ns[1]) \o ", " \o JoinInts(Tail(ns))

\* format(x) as an f-string field does: str(x)
Format(x) ==
    CASE x.t = "NoneType" -> "None"
      [] x.t = "str" -> x.s
      [] x.t = "int" -> IntToStr(x.v[1])
      [] x.t = "list" -> "[" \o JoinInts(x.v) \o "]"
      [] x.t = "list[str]" -> "['" \o x.s \o "']"

\* dict.get(key, default) and dict.get(key)
GetOr(d, key, default) == IF key \in DOMAIN d THEN d[key] ELSE default
Get(d, key) == GetOr(d, key, PyNone)

EmptyDict == [k \in {} |-> PyNone]

-----------------------------------------------------------------------------
(* IEEE-754 binary64 arithmetic, as far as the coordinate conversion needs  *)
(* it: int / int, float * int and int(float), each correctly rounded        *)
(* (round-half-to-even) as CPython and the hardware do them.                *)
(*                                                                          *)
(* A non-negative double is [t, l, e]: its value is                         *)
(*   (t * 2^52 + l[1] * 2^39 + l[2] * 2^26 + l[3] * 2^13 + l[4]) * 2^(e-52) *)
(* with 13-bit limbs l[i].  A quotient has t = 1 (53 significant bits from  *)
(* the leading one); a product keeps the exponent of its left factor, so    *)
(* its t holds the bits gained, and at most 53 significant bits are nonzero.*)
(* The operators are exact for |n| < 2^18 and 0 <= dim < 2^13.              *)

Limb == 2^13
Limbs == Len(<<0, 0, 0, 0>>)

RECURSIVE Pow2(_)
Pow2(n) == IF n = 0 THEN 1 ELSE 2 * Pow2(n - 1)

RECURSIVE BitLen(_)
\* int.bit_length()
BitLen(n) == IF n = 0 THEN 0 ELSE 1 + BitLen(n \div 2)

FloatZero == [t |-> 0, l |-> <<0, 0, 0, 0>>, e |-> 0]

RECURSIVE Normalize(_, _, _)
\* num / den = (num' / den') * 2^e with 1 <= num' / den' < 2
Normalize(num, den, e) ==
    IF num < den THEN Normalize(2 * num, den, e - 1)
    ELSE IF num >= 2 * den THEN Normalize(num, 2 * den, e + 1)
    ELSE [num |-> num, den |-> den, e |-> e]

RECURSIVE LongDivision(_, _, _)
\* k steps of long division in base 2^13: the limbs of r / den (r < den) and
\* the remainder left
LongDivision(r, den, k) ==
    IF k = 0 THEN [l |-> <<>>, r |-> r]
    ELSE LET rest == LongDivision((r * Limb) % den, den, k - 1)
         IN [l |-> <<(r * Limb) \div den>> \o rest.l, r |-> rest.r]

RECURSIVE AddAt(_, _, _)
\* the limbs l with amount (which may be negative, leaving the limb >= 0) added
\* to limb i, carries propagated toward limb 1, and the carry out of limb 1
AddAt(l, i, amount) ==
    IF i = 0 THEN [l |-> l, carry |-> amount]
    ELSE AddAt([l EXCEPT ![i] = (l[i] + amount) % Limb], i - 1,
               (l[i] + amount) \div Limb)

AddCarry(f, sum) == [t |-> f.t + sum.carry, l |-> sum.l, e |-> f.e]

\* f with amount added to its last limb
AddToLast(f, amount) == AddCarry(f, AddAt(f.l, Limbs, amount))

\* a quotient rounded up to 2^(e+1) is written with t = 1
Renormalize(q) == IF q.t = 2 THEN [t |-> 1, l |-> q.l, e |-> q.e + 1] ELSE q

\* round-half-to-even of the quotient whose first 53 bits are 1 and d.l, with
\* remainder d.r over den
RoundQuotient(d, den, e) ==
    Renormalize(
        AddToLast([t |-> 1, l |-> d.l, e |-> e],
                  IF \/ 2 * d.r > den
                     \/ 2 * d.r = den /\ d.l[Limbs] % 2 = 1
                  THEN 1 ELSE 0))

DivideNormalized(n) ==
    RoundQuotient(LongDivision(n.num - n.den, n.den, Limbs), n.den, n.e)

\* float(num) / float(den) for naturals num and den > 0  (int / int in Python)
FloatDiv(num, den) ==
    IF num = 0 THEN FloatZero ELSE DivideNormalized(Normalize(num, den, 0))

RECURSIVE MulLimbs(_, _, _, _)
\* the limbs l times w, from limb i toward limb 1, and the carry out of limb 1
MulLimbs(l, w, i, carry) ==
    IF i = 0 THEN [l |-> l, carry |-> carry]
    ELSE MulLimbs([l EXCEPT ![i] = (l[i] * w + carry) % Limb], w, i - 1,
                  (l[i] * w + carry) \div Limb)

\* round-half-to-even of an exact product to 53 significant bits: it has
\* 52 + BitLen(t) bits, and the last `drop` of them go
RoundTo(exact, unit, low) ==
    AddToLast(exact,
              (IF \/ 2 * (low % unit) > unit
                  \/ 2 * (low % unit) = unit /\ (low \div unit) % 2 = 1
               THEN unit ELSE 0) - (low % unit))

RoundProduct(exact) ==
    RoundTo(exact, Pow2(BitLen(exact.t) - 1),
            exact.l[Limbs - 1] * Limb + exact.l[Limbs])

MulCarry(f, w, prod) == [t |-> f.t * w + prod.carry, l |-> prod.l, e |-> f.e]

\* f * float(w) for a double f >= 0 with f.t = 1 and a natural w
FloatMul(f, w) ==
    IF f.t = 0 \/ w = 0 THEN FloatZero
    ELSE RoundProduct(MulCarry(f, w, MulLimbs(f.l, w, Limbs, 0)))

\* int(f) for a double f >= 0: truncation
FloatToInt(f) ==
    IF f.e < 0 THEN f.t \div Pow2(-f.e)
    ELSE f.t * Pow2(f.e) + f.l[1] \div Pow2(13 - f.e)

Abs(n) == IF n < 0 THEN -n ELSE n
Sign(n) == IF n < 0 THEN -1 ELSE 1

\* int(n / 1000 * dim) for integers n and dim >= 0; a negative n gives the
\* negated doubles, and int() truncates toward zero
ScaleCoordinate(n, dim) ==
    Sign(n) * FloatToInt(FloatMul(FloatDiv(Abs(n), 1000), dim))

-----------------------------------------------------------------------------
(* Strings, as far as the Wait handler needs them.                          *)

IsSpace(c) == c \in {" ", "\t", "\n", "\r"}

RECURSIVE LStrip(_)
LStrip(str) ==
    IF Len(str) > 0 /\ IsSpace(SubSeq(str, 1, 1))
    THEN LStrip(SubSeq(str, 2, Len(str))) ELSE str

RECURSIVE RStrip(_)
RStrip(str) ==
    IF Len(str) > 0 /\ IsSpace(SubSeq(str, Len(str), Len(str)))
    THEN RStrip(SubSeq(str, 1, Len(str) - 1)) ELSE str

\* str.strip()
Strip(str) == RStrip(LStrip(str))

RECURSIVE Replace(_, _, _)
\* str.replace(old, new), old non-empty: every occurrence, left to right
Replace(str, old, new) ==
    IF Len(str) < Len(old) THEN str
    ELSE IF SubSeq(str, 1, Len(old)) = old
    THEN new \o Replace(SubSeq(str, Len(old) + 1, Len(str)), old, new)
    ELSE SubSeq(str, 1, 1) \o Replace(SubSeq(str, 2, Len(str)), old, new)

IsDigit(c) == c \in {"0", "1", "2", "3", "4", "5", "6", "7", "8", "9"}

DigitValue(c) == CHOOSE d \in 0..9 : Digit(d) = c

RECURSIVE AllDigits(_)
AllDigits(str) ==
    Len(str) = 0 \/ (IsDigit(SubSeq(str, 1, 1)) /\ AllDigits(SubSeq(str, 2, Len(str))))

RECURSIVE DigitsToNat(_)
DigitsToNat(str) ==
    IF Len(str) = 0 THEN 0
    ELSE 10 * DigitsToNat(SubSeq(str, 1, Len(str) - 1))
         + DigitValue(SubSeq(str, Len(str), Len(str)))

RECURSIVE IndexOf(_, _, _)
\* the first position >= i of character c in str, 0 when there is none
IndexOf(str, c, i) ==
    IF i > Len(str) THEN 0
    ELSE IF SubSeq(str, i, i) = c THEN i
    ELSE IndexOf(str, c, i + 1)

\* [sign] digits [. digits] and [sign] . digits, with at most three fraction
\* digits, in milliseconds
Decimal(ip, fp) ==
    IF AllDigits(ip) /\ AllDigits(fp) /\ Len(ip) + Len(fp) > 0 /\ Len(fp) <= 3
    THEN [ok |-> TRUE,
          ms |-> DigitsToNat(ip) * 1000 + DigitsToNat(SubSeq(fp \o "000", 1, 3))]
    ELSE [ok |-> FALSE, ms |-> 0]

SplitAt(body, dot) ==
    IF dot = 0 THEN Decimal(body, "")
    ELSE Decimal(SubSeq(body, 1, dot - 1), SubSeq(body, dot + 1, Len(body)))

Unsigned(body) == SplitAt(body, IndexOf(body, ".", 1))

Negated(f) == [ok |-> f.ok, ms |-> -f.ms]

Signed(str) ==
    IF Len(str) > 0 /\ SubSeq(str, 1, 1) = "-"
    THEN Negated(Unsigned(SubSeq(str, 2, Len(str))))
    ELSE IF Len(str) > 0 /\ SubSeq(str, 1, 1) = "+"
    THEN Unsigned(SubSeq(str, 2, Len(str)))
    ELSE Unsigned(str)

\* float(str), in milliseconds: the decimal forms [sign] digits [. digits] and
\* [sign] . digits with at most three fraction digits are converted, with
\* surrounding whitespace skipped as float() does; a text with a letter other
\* than e, i, n in it, or with two numbers in it, is a ValueError (ok = FALSE).
\* The other texts float() converts (an exponent, inf, nan, underscores, more
\* fraction digits) are not among the durations drawn below.
ParseFloat(str) == Signed(Strip(str))

-----------------------------------------------------------------------------
(* Strings, as far as parse_action needs them.                              *)

\* str[i - 1], "" past either end
Char(str, i) == IF i \in 1..Len(str) THEN SubSeq(str, i, i) ELSE ""

\* str.startswith(prefix)
StartsWith(str, prefix) ==
    Len(str) >= Len(prefix) /\ SubSeq(str, 1, Len(prefix)) = prefix

\* str.find(sub) + 1
Find(str, sub) ==
    LET at == {i \in 1..(Len(str) - Len(sub) + 1) :
                  SubSeq(str, i, i + Len(sub) - 1) = sub}
    IN IF at = {} THEN 0 ELSE CHOOSE i \in at : \A j \in at : i <= j

\* str[1:-2]
Slice_1_m2(str) == IF Len(str) <= 3 THEN "" ELSE SubSeq(str, 2, Len(str) - 2)

-----------------------------------------------------------------------------
(* ast.parse(source, mode="eval"), on the part of Python's expression       *)
(* syntax that is made of names, integer and decimal literals, plain        *)
(* quoted strings, lists, tuples, sets, dicts, a sign, calls with           *)
(* positional and keyword arguments, and attribute access.  A source        *)
(* outside that part is reported as a SyntaxError; for sources with         *)
(* subscripts, operators, comparisons, conditionals or lambdas that is the  *)
(* outcome parse_action has too, since their tree is no call and no         *)
(* literal.  The instructions drawn below hold no string prefix, adjacent   *)
(* strings, exponent, starred argument or comprehension, and no subscript   *)
(* or operator in the callee.                                               *)

Letters ==
    {"a", "b", "c", "d", "e", "f", "g", "h", "i", "j", "k", "l", "m", "n", "o",
     "p", "q", "r", "s", "t", "u", "v", "w", "x", "y", "z", "A", "B", "C", "D",
     "E", "F", "G", "H", "I", "J", "K", "L", "M", "N", "O", "P", "Q", "R", "S",
     "T", "U", "V", "W", "X", "Y", "Z", "_"}

Digits == {"0", "1", "2", "3", "4", "5", "6", "7", "8", "9"}

Punctuation == {"(", ")", "[", "]", "{", "}", ",", "=", ".", ":", "-", "+"}

\* keyword.kwlist: the reserved words, which are no names
Keywords ==
    {"False", "None", "True", "and", "as", "assert", "async", "await", "break",
     "class", "continue", "def", "del", "elif", "else", "except", "finally",
     "for", "from", "global", "if", "import", "in", "is", "lambda", "nonlocal",
     "not", "or", "pass", "raise", "return", "try", "while", "with", "yield"}

\* the first position >= i whose character is not in class
Span(str, i, class) ==
    CHOOSE j \in i..(Len(str) + 1) :
        /\ Char(str, j) \notin class
        /\ \A k \in i..(j - 1) : Char(str, k) \in class

\* a token: its kind k, its text s or number n, and the position after it;
\* kind "error" is what is no token
Token(k, str, n, next) == [k |-> k, s |-> str, n |-> n, next |-> next]

\* the character a backslash and c stand for in a plain string literal
Escape(c) ==
    CASE c = "n" -> "\n"
      [] c = "t" -> "\t"
      [] c \in {"\"", "'", "\\"} -> c
      [] OTHER -> "\\" \o c

RECURSIVE StringBody(_, _, _, _)
\* the string literal whose characters start at i and whose quote is q
StringBody(str, i, q, acc) ==
    IF i > Len(str) \/ Char(str, i) = "\n" THEN Token("error", "", 0, 0)
    ELSE IF Char(str, i) = q THEN Token("string", acc, 0, i + 1)
    ELSE IF Char(str, i) = "\\"
    THEN StringBody(str, i + 2, q, acc \o Escape(Char(str, i + 1)))
    ELSE StringBody(str, i + 1, q, acc \o Char(str, i))

\* the number that starts at i: an integer with no leading zero unless it is
\* zero, or a decimal ip.fp in thousandths; no letter follows a number
NumberToken(str, i) ==
    LET j == Span(str, i, Digits)
        next == IF Char(str, j) = "." THEN Span(str, j + 1, Digits) ELSE j
        ip == SubSeq(str, i, j - 1)
        value == Decimal(ip, SubSeq(str, j + 1, next - 1))
    IN  IF Char(str, next) \in Letters THEN Token("error", "", 0, 0)
        ELSE IF next > j
        THEN IF value.ok THEN Token("float", "", value.ms, next)
             ELSE Token("error", "", 0, 0)
        ELSE IF Len(ip) > 1 /\ Char(ip, 1) = "0" /\ DigitsToNat(ip) # 0
        THEN Token("error", "", 0, 0)
        ELSE Token("int", "", DigitsToNat(ip), next)

\* the token that starts at position i, which holds no space
NextToken(str, i) ==
    CASE Char(str, i) \in Letters ->
            Token("name", SubSeq(str, i, Span(str, i, Letters \cup Digits) - 1), 0,
                  Span(str, i, Letters \cup Digits))
      [] Char(str, i) \in Digits -> NumberToken(str, i)
      [] Char(str, i) = "." /\ Char(str, i + 1) \in Digits -> NumberToken(str, i)
      [] Char(str, i) \in {"\"", "'"} -> StringBody(str, i + 1, Char(str, i), "")
      [] Char(str, i) \in Punctuation -> Token(Char(str, i), "", 0, i + 1)
      [] OTHER -> Token("error", "", 0, 0)

RECURSIVE Tokenize(_, _)
\* the tokens of str from position i on, up to the first that is none; a
\* comment ends the source
Tokenize(str, i) ==
    LET j == Span(str, i, {" ", "\t"})
        t == NextToken(str, j)
    IN  IF j > Len(str) \/ Char(str, j) = "#" THEN <<>>
        ELSE IF t.k = "error" THEN <<t>>
        ELSE <<t>> \o Tokenize(str, t.next)

\* the token at position p of ts
Tok(ts, p) == IF p \in 1..Len(ts) THEN ts[p] ELSE Token("end", "", 0, 0)

\* a tree node of kind k: Name (value: its id), Constant (value: its value),
\* UnaryOp (value: the sign, elts: the operand), List, Tuple and Set (elts),
\* Dict (elts: the keys, keywords: the values), Call (value: the callee,
\* elts: the positional arguments, keywords: [arg, value] records) and
\* Attribute (value: the object, keywords: the attribute's name)
Node(k, value, elts, keywords) ==
    [k |-> k, value |-> value, elts |-> elts, keywords |-> keywords]

\* what a parsing step gives: the node read and the position after it, or a
\* SyntaxError
Parsed(node, p) == [ok |-> TRUE, node |-> node, p |-> p]
SyntaxError == [ok |-> FALSE, node |-> Node("", "", <<>>, <<>>), p |-> 0]

RECURSIVE ParseExpr(_, _)
RECURSIVE ParseTrailers(_, _)
RECURSIVE ParseItems(_, _, _, _)
RECURSIVE ParseEntries(_, _, _, _)
RECURSIVE ParseArgs(_, _, _, _)

\* the items of a display from position p to its closing token: Node(close,
\* whether a comma came last, the items, <<>>)
ParseItems(ts, p, close, acc) ==
    LET e == ParseExpr(ts, p)
    IN  IF Tok(ts, p).k = close THEN Parsed(Node(close, Len(acc) > 0, acc, <<>>), p + 1)
        ELSE IF ~e.ok THEN SyntaxError
        ELSE IF Tok(ts, e.p).k = ","
        THEN ParseItems(ts, e.p + 1, close, Append(acc, e.node))
        ELSE IF Tok(ts, e.p).k = close
        THEN Parsed(Node(close, FALSE, Append(acc, e.node), <<>>), e.p + 1)
        ELSE SyntaxError

\* the entries of a dict display from position p to its closing brace
ParseEntries(ts, p, keys, values) ==
    LET key == ParseExpr(ts, p)
        value == ParseExpr(ts, key.p + 1)
    IN  IF Tok(ts, p).k = "}" THEN Parsed(Node("Dict", "", keys, values), p + 1)
        ELSE IF ~key.ok \/ Tok(ts, key.p).k # ":" THEN SyntaxError
        ELSE IF ~value.ok THEN SyntaxError
        ELSE IF Tok(ts, value.p).k = ","
        THEN ParseEntries(ts, value.p + 1, Append(keys, key.node),
                          Append(values, value.node))
        ELSE IF Tok(ts, value.p).k = "}"
        THEN Parsed(Node("Dict", "", Append(keys, key.node),
                         Append(values, value.node)),
                    value.p + 1)
        ELSE SyntaxError

\* the arguments of a call of func from position p to its closing
\* parenthesis: a positional argument does not follow a keyword argument
ParseArgs(ts, p, func, call) ==
    LET named == Tok(ts, p).k = "name" /\ Tok(ts, p + 1).k = "="
        e == ParseExpr(ts, IF named THEN p + 2 ELSE p)
        args == IF named THEN call.elts ELSE Append(call.elts, e.node)
        keywords ==
            IF named
            THEN Append(call.keywords, [arg |-> Tok(ts, p).s, value |-> e.node])
            ELSE call.keywords
    IN  IF Tok(ts, p).k = ")" THEN Parsed(call, p + 1)
        ELSE IF ~e.ok THEN SyntaxError
        ELSE IF named /\ Tok(ts, p).s \in Keywords THEN SyntaxError
        ELSE IF ~named /\ Len(call.keywords) > 0 THEN SyntaxError
        ELSE IF Tok(ts, e.p).k = ","
        THEN ParseArgs(ts, e.p + 1, func, Node("Call", func, args, keywords))
        ELSE IF Tok(ts, e.p).k = ")"
        THEN Parsed(Node("Call", func, args, keywords), e.p + 1)
        ELSE SyntaxError

\* a constant, a name, or a display: [ ... ], ( ), ( e ), ( e, ... ), { },
\* { k: v, ... } and { e, ... }
ParseAtom(ts, p) ==
    LET t == Tok(ts, p)
        items == ParseItems(ts, p + 1, CASE t.k = "[" -> "]" [] t.k = "(" -> ")"
                                         [] OTHER -> "}", <<>>)
        first == ParseExpr(ts, p + 1)
    IN  CASE t.k = "name" /\ t.s = "True" ->
                Parsed(Node("Constant", [t |-> "bool", v |-> <<1>>, s |-> ""],
                            <<>>, <<>>), p + 1)
          [] t.k = "name" /\ t.s = "False" ->
                Parsed(Node("Constant", [t |-> "bool", v |-> <<0>>, s |-> ""],
                            <<>>, <<>>), p + 1)
          [] t.k = "name" /\ t.s = "None" ->
                Parsed(Node("Constant", PyNone, <<>>, <<>>), p + 1)
          [] t.k = "name" /\ t.s \notin Keywords ->
                Parsed(Node("Name", t.s, <<>>, <<>>), p + 1)
          [] t.k = "int" -> Parsed(Node("Constant", PyInt(t.n), <<>>, <<>>), p + 1)
          [] t.k = "float" ->
                Parsed(Node("Constant", [t |-> "float", v |-> <<t.n>>, s |-> ""],
                            <<>>, <<>>), p + 1)
          [] t.k = "string" -> Parsed(Node("Constant", PyStr(t.s), <<>>, <<>>), p + 1)
          [] t.k = "{" /\ Tok(ts, p + 1).k = "}" ->
                Parsed(Node("Dict", "", <<>>, <<>>), p + 2)
          [] t.k = "{" /\ first.ok /\ Tok(ts, first.p).k = ":" ->
                ParseEntries(ts, p + 1, <<>>, <<>>)
          [] t.k \in {"[", "(", "{"} /\ ~items.ok -> SyntaxError
          [] t.k = "[" -> Parsed(Node("List", "", items.node.elts, <<>>), items.p)
          [] t.k = "{" -> Parsed(Node("Set", "", items.node.elts, <<>>), items.p)
          [] t.k = "(" /\ Len(items.node.elts) = 1 /\ ~items.node.value ->
                Parsed(items.node.elts[1], items.p)
          [] t.k = "(" -> Parsed(Node("Tuple", "", items.node.elts, <<>>), items.p)
          [] OTHER -> SyntaxError

\* the calls and attribute accesses that follow the primary r
ParseTrailers(ts, r) ==
    LET call == ParseArgs(ts, r.p + 1, r.node, Node("Call", r.node, <<>>, <<>>))
    IN  IF ~r.ok THEN SyntaxError
        ELSE IF Tok(ts, r.p).k = "("
        THEN IF call.ok THEN ParseTrailers(ts, call) ELSE SyntaxError
        ELSE IF Tok(ts, r.p).k = "." /\ Tok(ts, r.p + 1).k = "name"
                                     /\ Tok(ts, r.p + 1).s \notin Keywords
        THEN ParseTrailers(ts, Parsed(Node("Attribute", r.node, <<>>,
                                           Tok(ts, r.p + 1).s),
                                      r.p + 2))
        ELSE r

\* an expression from position p: a sign and an expression, or a primary
ParseExpr(ts, p) ==
    LET e == ParseExpr(ts, p + 1)
    IN  IF Tok(ts, p).k \notin {"-", "+"} THEN ParseTrailers(ts, ParseAtom(ts, p))
        ELSE IF ~e.ok THEN SyntaxError
        ELSE Parsed(Node("UnaryOp", Tok(ts, p).k, <<e.node>>, <<>>), e.p)

\* ast.parse(source, mode="eval").body: the whole source is one expression
ast_parse(source) ==
    LET ts == Tokenize(source, 1)
        e == ParseExpr(ts, 1)
    IN  IF e.ok /\ e.p = Len(ts) + 1 THEN e ELSE SyntaxError

-----------------------------------------------------------------------------
(* ast.literal_eval(node)                                                   *)

Value(val) == [ok |-> TRUE, val |-> val]
Malformed == [ok |-> FALSE, val |-> PyNone]

RECURSIVE AddAll(_, _, _)
\* the items of a set in the order they were first added
AddAll(vals, i, acc) ==
    IF i > Len(vals) THEN acc
    ELSE IF \E j \in 1..Len(acc) : acc[j] = vals[i] THEN AddAll(vals, i + 1, acc)
    ELSE AddAll(vals, i + 1, Append(acc, vals[i]))

RECURSIVE PutAll(_, _, _, _)
\* the <<key, value>> pairs of a dict in the order the keys were first put
PutAll(keys, vals, i, acc) ==
    IF i > Len(keys) THEN acc
    ELSE IF \E j \in 1..Len(acc) : acc[j][1] = keys[i]
    THEN PutAll(keys, vals, i + 1,
                [j \in 1..Len(acc) |->
                    IF acc[j][1] = keys[i] THEN <<keys[i], vals[i]>> ELSE acc[j]])
    ELSE PutAll(keys, vals, i + 1, Append(acc, <<keys[i], vals[i]>>))

\* the list, tuple, set or dict of the items vals (for a dict, of the keys
\* vals and the values others); TypeError for a set item or a dict key that
\* cannot be hashed
Container(k, vals, others) ==
    IF ~vals.ok \/ ~others.ok THEN Malformed
    ELSE IF k \in {"Set", "Dict"} /\ \E i \in 1..Len(vals.val) : ~Hashable(vals.val[i])
    THEN Malformed
    ELSE IF k = "Set" THEN Value([t |-> "set", v |-> AddAll(vals.val, 1, <<>>), s |-> ""])
    ELSE IF k = "Dict"
    THEN Value([t |-> "dict", v |-> PutAll(vals.val, others.val, 1, <<>>), s |-> ""])
    ELSE IF k = "Tuple" THEN Value([t |-> "tuple", v |-> vals.val, s |-> ""])
    ELSE IF \A i \in 1..Len(vals.val) : vals.val[i].t = "int"
    THEN Value(PyList([i \in 1..Len(vals.val) |-> vals.val[i].v[1]]))
    ELSE IF Len(vals.val) = 1 /\ vals.val[1].t = "str"
    THEN Value(PyStrList(vals.val[1].s))
    ELSE Value([t |-> "list[object]", v |-> vals.val, s |-> ""])

RECURSIVE literal_eval(_)
RECURSIVE EvalAll(_, _, _)

\* the values of nodes, in order
EvalAll(nodes, i, acc) ==
    LET value == literal_eval(nodes[i])
    IN  IF i > Len(nodes) THEN Value(acc)
        ELSE IF ~value.ok THEN Malformed
        ELSE EvalAll(nodes, i + 1, Append(acc, value.val))

\* a constant; a list, tuple, set or dict of such; the call set(); a sign
\* before a number constant; anything else is a ValueError
literal_eval(node) ==
    CASE node.k = "Constant" -> Value(node.value)
      [] node.k \in {"Tuple", "List", "Set"} ->
            Container(node.k, EvalAll(node.elts, 1, <<>>), Value(<<>>))
      [] node.k = "Dict" ->
            Container(node.k, EvalAll(node.elts, 1, <<>>),
                      EvalAll(node.keywords, 1, <<>>))
      [] node.k = "Call" ->
            IF node.value = Node("Name", "set", <<>>, <<>>)
                  /\ node.elts = <<>> /\ node.keywords = <<>>
            THEN Container("Set", Value(<<>>), Value(<<>>))
            ELSE Malformed
      [] node.k = "UnaryOp" ->
            IF node.elts[1].k = "Constant" /\ node.elts[1].value.t \in {"int", "float"}
            THEN Value([node.elts[1].value EXCEPT
                            !.v = <<IF node.value = "-" THEN -node.elts[1].value.v[1]
                                    ELSE node.elts[1].value.v[1]>>])
            ELSE Malformed
      [] OTHER -> Malformed

-----------------------------------------------------------------------------
(* The timing table (config/timing.py).  Delays are in milliseconds.        *)

DefaultDelay == 1000
DefaultDoubleTapInterval == 100
DefaultAdbRestartDelay == 2000

\* ActionTimingConfig(), no environment override set
DefaultActionTiming ==
    [keyboard_switch_delay |-> DefaultDelay,
     text_clear_delay |-> DefaultDelay,
     text_input_delay |-> DefaultDelay,
     keyboard_restore_delay |-> DefaultDelay]

\* DeviceTimingConfig(), no environment override set
DefaultDeviceTiming ==
    [default_tap_delay |-> DefaultDelay,
     default_double_tap_delay |-> DefaultDelay,
     double_tap_interval |-> DefaultDoubleTapInterval,
     default_long_press_delay |-> DefaultDelay,
     default_swipe_delay |-> DefaultDelay,
     default_back_delay |-> DefaultDelay,
     default_home_delay |-> DefaultDelay,
     default_launch_delay |-> DefaultDelay]

\* ConnectionTimingConfig(), no environment override set
DefaultConnectionTiming ==
    [adb_restart_delay |-> DefaultAdbRestartDelay,
     server_restart_delay |-> DefaultDelay]

\* TimingConfig()
TimingConfig ==
    [action |-> DefaultActionTiming,
     device |-> DefaultDeviceTiming,
     connection |-> DefaultConnectionTiming]

\* the argument None of update_timing_config
NoConfig == [none |-> TRUE]

\* the entries of the table: the environment variable each __post_init__
\* reads for it, and its default
Entries ==
    {[group |-> "action", field |-> "keyboard_switch_delay",
      env |-> "PHONE_AGENT_KEYBOARD_SWITCH_DELAY", default |-> DefaultDelay],
     [group |-> "action", field |-> "text_clear_delay",
      env |-> "PHONE_AGENT_TEXT_CLEAR_DELAY", default |-> DefaultDelay],
     [group |-> "action", field |-> "text_input_delay",
      env |-> "PHONE_AGENT_TEXT_INPUT_DELAY", default |-> DefaultDelay],
     [group |-> "action", field |-> "keyboard_restore_delay",
      env |-> "PHONE_AGENT_KEYBOARD_RESTORE_DELAY", default |-> DefaultDelay],
     [group |-> "device", field |-> "default_tap_delay",
      env |-> "PHONE_AGENT_TAP_DELAY", default |-> DefaultDelay],
     [group |-> "device", field |-> "default_double_tap_delay",
      env |-> "PHONE_AGENT_DOUBLE_TAP_DELAY", default |-> DefaultDelay],
     [group |-> "device", field |-> "double_tap_interval",
      env |-> "PHONE_AGENT_DOUBLE_TAP_INTERVAL",
      default |-> DefaultDoubleTapInterval],
     [group |-> "device", field |-> "default_long_press_delay",
      env |-> "PHONE_AGENT_LONG_PRESS_DELAY", default |-> DefaultDelay],
     [group |-> "device", field |-> "default_swipe_delay",
      env |-> "PHONE_AGENT_SWIPE_DELAY", default |-> DefaultDelay],
     [group |-> "device", field |-> "default_back_delay",
      env |-> "PHONE_AGENT_BACK_DELAY", default |-> DefaultDelay],
     [group |-> "device", field |-> "default_home_delay",
      env |-> "PHONE_AGENT_HOME_DELAY", default |-> DefaultDelay],
     [group |-> "device", field |-> "default_launch_delay",
      env |-> "PHONE_AGENT_LAUNCH_DELAY", default |-> DefaultDelay],
     [group |-> "connection", field |-> "adb_restart_delay",
      env |-> "PHONE_AGENT_ADB_RESTART_DELAY",
      default |-> DefaultAdbRestartDelay],
     [group |-> "connection", field |-> "server_restart_delay",
      env |-> "PHONE_AGENT_SERVER_RESTART_DELAY", default |-> DefaultDelay]}

\* float(os.getenv(entry.env, default)) where env is os.environ, the set of
\* <<name, value>> of the variables that are set: the variable's text
\* converted when it is set, the default (a float already) when it is not
getenv_float_Fallback(env, entry) ==
    LET set == {var \in env : var[1] = entry.env}
        read == ParseFloat((CHOOSE var \in set : TRUE)[2])
    IN  IF set # {} /\ read.ok THEN read
        ELSE [ok |-> TRUE, ms |-> entry.default]

getenv_float(env, entry) ==
    LET set == {var \in env : var[1] = entry.env}
    IN  IF set # {} THEN ParseFloat((CHOOSE var \in set : TRUE)[2])
        ELSE [ok |-> TRUE, ms |-> entry.default]

\* one group's __post_init__ on the dataclass defaults, when no conversion
\* raises
post_init(env, group) ==
    [field \in {entry.field : entry \in {e \in Entries : e.group = group}} |->
        getenv_float(env, CHOOSE entry \in Entries :
                              entry.group = group /\ entry.field = field).ms]

\* TIMING_CONFIG = TimingConfig() at the import of timing.py: the table, or
\* the ValueError of the first conversion that raises
LoadTimingConfig(env) ==
    IF \A entry \in Entries : getenv_float(env, entry).ok
    THEN [kind |-> "return",
          table |-> [action |-> post_init(env, "action"),
                     device |-> post_init(env, "device"),
                     connection |-> post_init(env, "connection")],
          exc |-> ""]
    ELSE [kind |-> "raise", table |-> NoConfig, exc |-> "ValueError"]

\* a table built anew from the groups given, the others at their defaults
update_timing_config_Rebuilds(table, newAction, newDevice, newConnection) ==
    [action |-> IF newAction # NoConfig THEN newAction ELSE DefaultActionTiming,
     device |-> IF newDevice # NoConfig THEN newDevice ELSE DefaultDeviceTiming,
     connection |-> IF newConnection # NoConfig THEN newConnection
                    ELSE DefaultConnectionTiming]

\* update_timing_config(action, device, connection): the table afterwards
update_timing_config(table, newAction, newDevice, newConnection) ==
    [action |-> IF newAction # NoConfig THEN newAction ELSE table.action,
     device |-> IF newDevice # NoConfig THEN newDevice ELSE table.device,
     connection |-> IF newConnection # NoConfig THEN newConnection
                    ELSE table.connection]

-----------------------------------------------------------------------------
(* The collaborators of one execute call.                                   *)
(*                                                                          *)
(* env says how they behave during the call:                                *)
(*   faultAt  the number of the device-surface call that raises (0: none)   *)
(*   confirm  what the confirmation callback does: "True", "False", "raise" *)
(*   takeover what the takeover callback does: "None", "raise"              *)
(*   launch   what launch_app returns: "True", "False"                      *)
(*   ime      the input method detect_and_set_adb_keyboard reports          *)
(*                                                                          *)
(* An event is one call made: [op, xy, arg, out, exc], with xy its integer  *)
(* arguments, arg its object argument, out what it returned ("raise" when   *)
(* it raised) and exc the message of what it raised.                        *)

DeviceOps ==
    {"launch_app", "tap", "double_tap", "long_press", "swipe", "back", "home",
     "detect_and_set_adb_keyboard", "clear_text", "type_text",
     "restore_keyboard"}

DeviceFaultMessage == "error: device offline"
CallbackFaultMessage == "callback failed"

Event(op, xy, arg, out, exc) ==
    [op |-> op, xy |-> xy, arg |-> arg, out |-> out, exc |-> exc]

\* the n-th device-surface call of this execute call
DeviceCall(op, xy, arg, n, env, ret) ==
    IF env.faultAt = n THEN Event(op, xy, arg, "raise", DeviceFaultMessage)
    ELSE Event(op, xy, arg, ret, "")

\* a callback handed to the constructor (handler.py:53-54)
Callback(op, arg, behaviour) ==
    IF behaviour = "raise" THEN Event(op, <<>>, arg, "raise", CallbackFaultMessage)
    ELSE Event(op, <<>>, arg, behaviour, "")

\* time.sleep(ms / 1000)
Sleep(ms) ==
    IF ms < 0
    THEN Event("sleep", <<ms>>, PyNone, "raise", "sleep length must be non-negative")
    ELSE Event("sleep", <<ms>>, PyNone, "None", "")

Failed(ev) == ev.out = "raise"

-----------------------------------------------------------------------------
(* ActionResult and the two ways a Python call ends.                        *)

ActionResult(success, should_finish, message) ==
    [success |-> success, should_finish |-> should_finish, message |-> message,
     requires_confirmation |-> FALSE]

NoResult == [none |-> TRUE]

Return(evs, result) ==
    [kind |-> "return", result |-> result, exc |-> "", events |-> evs]

Raise(evs, exc) ==
    [kind |-> "raise", result |-> NoResult, exc |-> exc, events |-> evs]

\* straight-line code: the calls of steps are made in order; the first one that
\* raises ends the function with its exception, otherwise result is returned
Sequence(steps, result) ==
    IF \E i \in 1..Len(steps) : Failed(steps[i])
    THEN LET k == CHOOSE i \in 1..Len(steps) :
                      /\ Failed(steps[i])
                      /\ \A j \in 1..(i - 1) : ~Failed(steps[j])
         IN Raise(SubSeq(steps, 1, k), steps[k].exc)
    ELSE Return(steps, result)

-----------------------------------------------------------------------------
(* ActionHandler                                                            *)

\* element[i] / 1000 * dim, truncated: the value, or the exception raised
Subscript(element, i) ==
    CASE element.t = "list" ->
            IF i + 1 <= Len(element.v)
            THEN [ok |-> TRUE, n |-> element.v[i + 1], exc |-> ""]
            ELSE [ok |-> FALSE, n |-> 0, exc |-> "list index out of range"]
      [] element.t \in {"list[str]", "str"} ->
            IF element.t = "str" /\ i + 1 > Len(element.s)
            THEN [ok |-> FALSE, n |-> 0, exc |-> "string index out of range"]
            ELSE IF element.t = "list[str]" /\ i > 0
            THEN [ok |-> FALSE, n |-> 0, exc |-> "list index out of range"]
            ELSE [ok |-> FALSE, n |-> 0,
                  exc |-> "unsupported operand type(s) for /: 'str' and 'int'"]
      [] OTHER ->
            [ok |-> FALSE, n |-> 0,
             exc |-> "'" \o TypeName(element) \o "' object is not subscriptable"]

\* the pair of pixels from the two subscripted items, or the first exception
ConvertItems(e0, e1, screen_width, screen_height) ==
    IF ~e0.ok THEN [ok |-> FALSE, x |-> 0, y |-> 0, exc |-> e0.exc]
    ELSE IF ~e1.ok THEN [ok |-> FALSE, x |-> 0, y |-> 0, exc |-> e1.exc]
    ELSE [ok |-> TRUE,
          x |-> ScaleCoordinate(e0.n, screen_width),
          y |-> ScaleCoordinate(e1.n, screen_height),
          exc |-> ""]

_convert_relative_to_absolute(element, screen_width, screen_height) ==
    ConvertItems(Subscript(element, 0), Subscript(element, 1), screen_width,
                 screen_height)

\* a launch that takes an app that cannot be resolved for the end of the run
LaunchResult_NotFoundFatal(app_name, call) ==
    IF Failed(call) THEN Raise(<<call>>, call.exc)
    ELSE IF call.out = "True" THEN Return(<<call>>, ActionResult(TRUE, FALSE, PyNone))
    ELSE Return(<<call>>,
                ActionResult(FALSE, TRUE,
                             PyStr("App not found: " \o Format(app_name))))

\* lines 135-138: after launch_app was called
LaunchResult(app_name, call) ==
    IF Failed(call) THEN Raise(<<call>>, call.exc)
    ELSE IF call.out = "True" THEN Return(<<call>>, ActionResult(TRUE, FALSE, PyNone))
    ELSE Return(<<call>>,
                ActionResult(FALSE, FALSE,
                             PyStr("App not found: " \o Format(app_name))))

_handle_launch(act, width, height, env) ==
    IF ~Truthy(Get(act, "app"))
    THEN Return(<<>>, ActionResult(FALSE, FALSE, PyStr("No app name specified")))
    ELSE LaunchResult(Get(act, "app"),
                      DeviceCall("launch_app", <<>>, Get(act, "app"), 1, env,
                                 env.launch))


\* a gate that asks and then taps whatever the answer
TapConfirmed_IgnoresAnswer(confirm, call) ==
    IF Failed(confirm) THEN Raise(<<confirm>>, confirm.exc)
    ELSE Sequence(<<confirm, call>>, ActionResult(TRUE, FALSE, PyNone))

\* lines 150-158: the confirmation callback was called and answered
TapConfirmed(confirm, call) ==
    IF Failed(confirm) THEN Raise(<<confirm>>, confirm.exc)
    ELSE IF confirm.out # "True"
    THEN Return(<<confirm>>,
                ActionResult(FALSE, TRUE, PyStr("User cancelled sensitive operation")))
    ELSE Sequence(<<confirm, call>>, ActionResult(TRUE, FALSE, PyNone))

\* lines 146-158: element is there, p is its conversion
TapAt(act, env, p) ==
    IF ~p.ok THEN Raise(<<>>, p.exc)
    ELSE IF "message" \in DOMAIN act
    THEN TapConfirmed(Callback("confirmation_callback", act["message"], env.confirm),
                      DeviceCall("tap", <<p.x, p.y>>, PyNone, 1, env, "None"))
    ELSE Sequence(<<DeviceCall("tap", <<p.x, p.y>>, PyNone, 1, env, "None")>>,
                  ActionResult(TRUE, FALSE, PyNone))


\* a tap handler that asks for confirmation before it looks for the element
_handle_tap_AsksFirst(act, width, height, env) ==
    IF "message" \in DOMAIN act /\ ~Truthy(Get(act, "element"))
    THEN Return(<<Callback("confirmation_callback", act["message"], env.confirm)>>,
                ActionResult(FALSE, FALSE, PyStr("No element coordinates")))
    ELSE IF ~Truthy(Get(act, "element"))
    THEN Return(<<>>, ActionResult(FALSE, FALSE, PyStr("No element coordinates")))
    ELSE TapAt(act, env,
               _convert_relative_to_absolute(Get(act, "element"), width, height))

_handle_tap(act, width, height, env) ==
    IF ~Truthy(Get(act, "element"))
    THEN Return(<<>>, ActionResult(FALSE, FALSE, PyStr("No element coordinates")))
    ELSE TapAt(act, env,
               _convert_relative_to_absolute(Get(act, "element"), width, height))


\* the text typed before the field is cleared
TypeSteps_TypeBeforeClear(text, switch, env) ==
    Sequence(<<switch,
               Sleep(TIMING_CONFIG.action.keyboard_switch_delay),
               DeviceCall("type_text", <<>>, text, 2, env, "None"),
               Sleep(TIMING_CONFIG.action.text_input_delay),
               DeviceCall("clear_text", <<>>, PyNone, 3, env, "None"),
               Sleep(TIMING_CONFIG.action.text_clear_delay),
               DeviceCall("restore_keyboard", <<>>, PyStr(switch.out), 4, env, "None"),
               Sleep(TIMING_CONFIG.action.keyboard_restore_delay)>>,
             ActionResult(TRUE, FALSE, PyNone))

\* lines 166-179: detect_and_set_adb_keyboard was called
TypeSteps(text, switch, env) ==
    Sequence(<<switch,
               Sleep(TIMING_CONFIG.action.keyboard_switch_delay),
               DeviceCall("clear_text", <<>>, PyNone, 2, env, "None"),
               Sleep(TIMING_CONFIG.action.text_clear_delay),
               DeviceCall("type_text", <<>>, text, 3, env, "None"),
               Sleep(TIMING_CONFIG.action.text_input_delay),
               DeviceCall("restore_keyboard", <<>>, PyStr(switch.out), 4, env, "None"),
               Sleep(TIMING_CONFIG.action.keyboard_restore_delay)>>,
             ActionResult(TRUE, FALSE, PyNone))

_handle_type(act, width, height, env) ==
    TypeSteps(GetOr(act, "text", PyStr("")),
              DeviceCall("detect_and_set_adb_keyboard", <<>>, PyNone, 1, env, env.ime),
              env)

\* lines 189-193: start and end are there, s and e are their conversions
SwipeBetween(s, e, env) ==
    IF ~s.ok THEN Raise(<<>>, s.exc)
    ELSE IF ~e.ok THEN Raise(<<>>, e.exc)
    ELSE Sequence(<<DeviceCall("swipe", <<s.x, s.y, e.x, e.y>>, PyNone, 1, env,
                               "None")>>,
                  ActionResult(TRUE, FALSE, PyNone))

_handle_swipe(act, width, height, env) ==
    IF ~Truthy(Get(act, "start")) \/ ~Truthy(Get(act, "end"))
    THEN Return(<<>>, ActionResult(FALSE, FALSE, PyStr("Missing swipe coordinates")))
    ELSE SwipeBetween(_convert_relative_to_absolute(Get(act, "start"), width, height),
                      _convert_relative_to_absolute(Get(act, "end"), width, height),
                      env)

_handle_back(act, width, height, env) ==
    Sequence(<<DeviceCall("back", <<>>, PyNone, 1, env, "None")>>,
             ActionResult(TRUE, FALSE, PyNone))

_handle_home(act, width, height, env) ==
    Sequence(<<DeviceCall("home", <<>>, PyNone, 1, env, "None")>>,
             ActionResult(TRUE, FALSE, PyNone))

\* lines 211-213 and 221-223: element is there, p is its conversion
GestureAt(op, env, p) ==
    IF ~p.ok THEN Raise(<<>>, p.exc)
    ELSE Sequence(<<DeviceCall(op, <<p.x, p.y>>, PyNone, 1, env, "None")>>,
                  ActionResult(TRUE, FALSE, PyNone))

_handle_double_tap(act, width, height, env) ==
    IF ~Truthy(Get(act, "element"))
    THEN Return(<<>>, ActionResult(FALSE, FALSE, PyStr("No element coordinates")))
    ELSE GestureAt("double_tap", env,
                   _convert_relative_to_absolute(Get(act, "element"), width, height))

_handle_long_press(act, width, height, env) ==
    IF ~Truthy(Get(act, "element"))
    THEN Return(<<>>, ActionResult(FALSE, FALSE, PyStr("No element coordinates")))
    ELSE GestureAt("long_press", env,
                   _convert_relative_to_absolute(Get(act, "element"), width, height))

\* lines 228-234: float() was tried on the text left
WaitFor(parsed) ==
    Sequence(<<Sleep(IF parsed.ok THEN parsed.ms ELSE 1000)>>,
             ActionResult(TRUE, FALSE, PyNone))

\* lines 229-234: duration_str is there or defaulted
WaitParsed(duration_str) ==
    IF duration_str.t # "str"
    THEN Raise(<<>>, "'" \o TypeName(duration_str)
                     \o "' object has no attribute 'replace'")
    ELSE WaitFor(ParseFloat(Strip(Replace(duration_str.s, "seconds", ""))))

_handle_wait(act, width, height, env) ==
    WaitParsed(GetOr(act, "duration", PyStr("1 seconds")))

\* a takeover that shows the default text whatever the command says
_handle_takeover_DefaultText(act, width, height, env) ==
    Sequence(<<Callback("takeover_callback", PyStr("User intervention required"),
                        env.takeover)>>,
             ActionResult(TRUE, FALSE, PyNone))

_handle_takeover(act, width, height, env) ==
    Sequence(<<Callback("takeover_callback",
                        GetOr(act, "message", PyStr("User intervention required")),
                        env.takeover)>>,
             ActionResult(TRUE, FALSE, PyNone))

_handle_note(act, width, height, env) ==
    Return(<<>>, ActionResult(TRUE, FALSE, PyNone))

_handle_call_api(act, width, height, env) ==
    Return(<<>>, ActionResult(TRUE, FALSE, PyNone))

\* an interact that says nothing
_handle_interact_NoMessage(act, width, height, env) ==
    Return(<<>>, ActionResult(TRUE, FALSE, PyNone))

_handle_interact(act, width, height, env) ==
    Return(<<>>, ActionResult(TRUE, FALSE, PyStr("User interaction required")))

\* the dispatch table of _get_handler
handlers ==
    [Launch |-> "_handle_launch", Tap |-> "_handle_tap", Type |-> "_handle_type",
     Type_Name |-> "_handle_type", Swipe |-> "_handle_swipe",
     Back |-> "_handle_back", Home |-> "_handle_home",
     Wait |-> "_handle_wait", Take_over |-> "_handle_takeover",
     Note |-> "_handle_note", Call_API |-> "_handle_call_api",
     Interact |-> "_handle_interact"]
    @@ ("Double Tap" :> "_handle_double_tap")
    @@ ("Long Press" :> "_handle_long_press")

\* handlers.get(action_name): the name of the bound method, "None" for no
\* handler; hashing an unhashable key raises
_get_handler(action_name) ==
    IF ~Hashable(action_name)
    THEN [kind |-> "raise", handler |-> "None",
          exc |-> "unhashable type: '" \o TypeName(action_name) \o "'"]
    ELSE IF action_name.t = "str" /\ action_name.s \in DOMAIN handlers
    THEN [kind |-> "return", handler |-> handlers[action_name.s], exc |-> ""]
    ELSE [kind |-> "return", handler |-> "None", exc |-> ""]

\* handler_method(action, screen_width, screen_height)
CallHandler(handler_method, act, width, height, env) ==
    CASE handler_method = "_handle_launch" -> _handle_launch(act, width, height, env)
      [] handler_method = "_handle_tap" -> _handle_tap(act, width, height, env)
      [] handler_method = "_handle_type" -> _handle_type(act, width, height, env)
      [] handler_method = "_handle_swipe" -> _handle_swipe(act, width, height, env)
      [] handler_method = "_handle_back" -> _handle_back(act, width, height, env)
      [] handler_method = "_handle_home" -> _handle_home(act, width, height, env)
      [] handler_method = "_handle_double_tap" ->
            _handle_double_tap(act, width, height, env)
      [] handler_method = "_handle_long_press" ->
            _handle_long_press(act, width, height, env)
      [] handler_method = "_handle_wait" -> _handle_wait(act, width, height, env)
      [] handler_method = "_handle_takeover" ->
            _handle_takeover(act, width, height, env)
      [] handler_method = "_handle_note" -> _handle_note(act, width, height, env)
      [] handler_method = "_handle_call_api" ->
            _handle_call_api(act, width, height, env)
      [] handler_method = "_handle_interact" ->
            _handle_interact(act, width, height, env)


\* a boundary that reports the failure without the exception's message
TryHandler_DropsMessage(done) ==
    IF done.kind = "raise"
    THEN Return(done.events, ActionResult(FALSE, FALSE, PyStr("Action failed")))
    ELSE done

\* lines 94-99: try: return handler_method(...) except Exception as e: ...
TryHandler(done) ==
    IF done.kind = "raise"
    THEN Return(done.events,
                ActionResult(FALSE, FALSE, PyStr("Action failed: " \o done.exc)))
    ELSE done

\* lines 85-99: handler_method is what _get_handler did
Dispatch(act, screen_width, screen_height, env, handler_method) ==
    IF handler_method.kind = "raise" THEN Raise(<<>>, handler_method.exc)
    ELSE IF handler_method.handler = "None"
    THEN Return(<<>>,
                ActionResult(FALSE, FALSE,
                             PyStr("Unknown action: " \o Format(Get(act, "action")))))
    ELSE TryHandler(CallHandler(handler_method.handler, act, screen_width,
                                screen_height, env))


\* an execute whose finish result carries no message
execute_FinishWithoutMessage(act, screen_width, screen_height, env) ==
    IF Get(act, "_metadata") = PyStr("finish")
    THEN Return(<<>>, ActionResult(TRUE, TRUE, PyNone))
    ELSE IF Get(act, "_metadata") # PyStr("do")
    THEN Return(<<>>,
                ActionResult(FALSE, TRUE,
                             PyStr("Unknown action type: "
                                   \o Format(Get(act, "_metadata")))))
    ELSE Dispatch(act, screen_width, screen_height, env,
                  _get_handler(Get(act, "action")))

\* an execute that takes an unknown discriminator for recoverable
execute_UnknownTypeRecoverable(act, screen_width, screen_height, env) ==
    IF Get(act, "_metadata") = PyStr("finish")
    THEN Return(<<>>, ActionResult(TRUE, TRUE, Get(act, "message")))
    ELSE IF Get(act, "_metadata") # PyStr("do")
    THEN Return(<<>>,
                ActionResult(FALSE, FALSE,
                             PyStr("Unknown action type: "
                                   \o Format(Get(act, "_metadata")))))
    ELSE Dispatch(act, screen_width, screen_height, env,
                  _get_handler(Get(act, "action")))

execute(act, screen_width, screen_height, env) ==
    IF Get(act, "_metadata") = PyStr("finish")
    THEN Return(<<>>, ActionResult(TRUE, TRUE, Get(act, "message")))
    ELSE IF Get(act, "_metadata") # PyStr("do")
    THEN Return(<<>>,
                ActionResult(FALSE, TRUE,
                             PyStr("Unknown action type: "
                                   \o Format(Get(act, "_metadata")))))
    ELSE Dispatch(act, screen_width, screen_height, env,
                  _get_handler(Get(act, "action")))

-----------------------------------------------------------------------------
(* parse_action                                                             *)

\* the two ways parse_action ends: the command returned, or the ValueError
Command(act) == [kind |-> "return", action |-> act, exc |-> ""]
ValueError == [kind |-> "raise", action |-> EmptyDict, exc |-> "ValueError"]

RECURSIVE SetKeywords(_, _, _)
\* lines 302-307: action[key] = ast.literal_eval(keyword.value) for each keyword
SetKeywords(keywords, i, act) ==
    LET value == literal_eval(keywords[i].value)
    IN  IF i > Len(keywords) THEN Command(act)
        ELSE IF ~value.ok THEN ValueError
        ELSE SetKeywords(keywords, i + 1, (keywords[i].arg :> value.val) @@ act)

\* lines 289-291: the text between "text=" and the end, less its first and
\* its last two characters; IndexError without a "text="
TypeAction(response) ==
    IF Find(response, "text=") = 0 THEN ValueError
    ELSE Command([_metadata |-> PyStr("do"), action |-> PyStr("Type"),
                  text |-> PyStr(Slice_1_m2(SubSeq(response,
                                                   Find(response, "text=") + 5,
                                                   Len(response))))])

\* lines 294-309: tree is ast.parse(response, mode="eval").body, or its
\* SyntaxError
DoAction(tree) ==
    IF ~tree.ok THEN ValueError
    ELSE IF tree.node.k # "Call" THEN ValueError
    ELSE SetKeywords(tree.node.keywords, 1, [_metadata |-> PyStr("do")])

\* lines 311-315
FinishAction(response) ==
    Command([_metadata |-> PyStr("finish"),
             message |-> PyStr(Slice_1_m2(Replace(response, "finish(message=", "")))])

\* a parser that takes every text that is no do(...) for a finish
ParseStripped_NoElse(response) ==
    IF StartsWith(response, "do(action=\"Type\"")
          \/ StartsWith(response, "do(action=\"Type_Name\"")
    THEN TypeAction(response)
    ELSE IF StartsWith(response, "do") THEN DoAction(ast_parse(response))
    ELSE FinishAction(response)

\* lines 286-318, response stripped
ParseStripped(response) ==
    IF StartsWith(response, "do(action=\"Type\"")
          \/ StartsWith(response, "do(action=\"Type_Name\"")
    THEN TypeAction(response)
    ELSE IF StartsWith(response, "do") THEN DoAction(ast_parse(response))
    ELSE IF StartsWith(response, "finish") THEN FinishAction(response)
    ELSE ValueError

parse_action(response) == ParseStripped(Strip(response))

-----------------------------------------------------------------------------
(* The commands, screens and collaborator behaviours the model draws from.  *)

\* the dicts that hold key with one of vals, or do not hold it
Opt(key, vals) == {EmptyDict} \cup {key :> v : v \in vals}

Cross(A, B) == {a @@ b : a \in A, b \in B}

KnownActions ==
    {"Launch", "Tap", "Type", "Type_Name", "Swipe", "Back", "Home", "Double Tap",
     "Long Press", "Wait", "Take_over", "Note", "Call_API", "Interact"}

\* values of the action field: the known names, an unknown name and a list
\* literal
ActionVals ==
    {PyStr(n) : n \in KnownActions}
        \cup {PyStr("Scroll"), PyStrList("Tap")}

\* values of the _metadata field: what parse_action, do() and finish() set, and
\* something else
MetadataVals == {PyStr("do"), PyStr("finish"), PyStr("undo")}

ElementVals ==
    {PyList(<<500, 500>>), PyList(<<290, 205>>), PyList(<<>>), PyList(<<500>>),
     PyStr("ab")}

MessageVals == {PyStr("Confirm payment")}

AppVals == {PyStr(""), PyStr("WeChat")}

TextVals == {PyStr("hello, world")}

StartVals == {PyList(<<500, 800>>), PyList(<<290>>)}

EndVals == {PyList(<<570, 205>>), PyList(<<>>)}

DurationVals ==
    {PyStr("2 seconds"), PyStr("0.5 seconds"), PyStr("soon"), PyStr("2 minutes"),
     PyStr("-1 seconds"), PyInt(3)}

ArgSets ==
    Cross(Opt("element", ElementVals), Opt("message", MessageVals))
        \cup Cross(Opt("app", AppVals), Opt("message", MessageVals))
        \cup Opt("text", TextVals)
        \cup Cross(Opt("start", StartVals), Opt("end", EndVals))
        \cup Opt("duration", DurationVals)

Commands ==
    Cross({"_metadata" :> PyStr("do")}, Cross(Opt("action", ActionVals), ArgSets))
        \cup Cross(Opt("_metadata", MetadataVals \ {PyStr("do")}),
                   Cross(Opt("action", {PyStr("Tap"), PyStr("Type")}),
                         Cross(Opt("element", {PyList(<<500, 500>>)}),
                               Opt("message", {PyStr("done"), PyNone}))))

\* do(...) with a keyword value that holds a call, an attribute access, a
\* subscript or a name
NonLiteralTexts ==
    {"do(action=\"Tap\", element=get())", "do(action=\"Launch\", app=os.name)",
     "do(action=\"Launch\", app=name)", "do(action=\"Note\", x=set())",
     "do(action=\"Tap\", element=[f(), 1])",
     "do(action=\"Wait\", duration=__import__(\"os\").system(\"id\"))",
     "do(action=\"Tap\", element=e[0])", "do(action=\"Note\", x=set([1]))"}

\* the responses of the model handed to parse_action
Instructions ==
    NonLiteralTexts \cup {
     \* texts that start with neither do nor finish
     "tap(500, 500)", "", "  ", "Do(action=\"Tap\")", "click",
     "action=\"Tap\"", "I will finish(message=\"x\")",
     \* instructions with whitespace around them
     " do(action=\"Back\") ", "\ndo(action=\"Home\")\n",
     "finish(message=\"done\") ",
     \* texts that start with finish
     "finish(message=\"done\")", "finish(message=\"Task done, all good\")",
     "finish(message='ok')", "finish()", "finished", "finish",
     "finish(reason=\"x\")", "finish (message=\"x\")",
     \* texts that start with do
     "do", "do()", "do action", "do(\"Tap\")", "do(action=\"Tap\"",
     "do(action=\"Tap\") + 1", "download(action=\"Tap\")",
     "do_it(action=\"Tap\")", "do.x(action=\"Back\")",
     "do(action=\"Back\") # go back", "do(if=1)", "do(_metadata=\"finish\")",
     "do(element=[1, 2], \"Tap\")",
     \* keyword values of the kinds literal_eval reads, well and ill formed
     "do(action=\"Note\", x=None)", "do(action=\"Note\", x={\"a\": 1})",
     "do(action=\"Note\", x={1, 2})", "do(action=\"Note\", x=[\"a\", \"b\"])",
     "do(action=\"Note\", x=[[1, 2], [3]])", "do(action=\"Note\", x=(1, 2))",
     "do(action=\"Note\", x=True)", "do(action=\"Wait\", duration=2.5)",
     "do(action=\"Note\", x=-3)", "do(action=[\"Tap\"])",
     "do(action=\"Note\", x={})", "do(action=\"Note\", x={[1]})",
     "do(action=\"Note\", x=-True)", "do(action=\"Note\", x=(1))",
     "do(action=\"Note\", x={\"a\": 1, \"a\": 2})",
     "do(action=\"Note\", x=007)",
     \* instructions as the prompt asks for them
     "do(action=\"Tap\", element=[500,500])",
     "do(action=\"Tap\", element=[290, 205], message=\"Confirm payment\")",
     "do(action=\"Swipe\", start=[500, 800], end=[500, 200])",
     "do(action=\"Long Press\", element=[1,2])",
     "do(action=\"Wait\", duration=\"2 seconds\")",
     "do(action=\"Wait\", duration=3)",
     "do(action=\"Take_over\", message=\"Please log in\")",
     "do(action=\"Launch\", app=\"WeChat\")", "do(action='Type', text='hi')",
     \* texts around the prefixes do(action="Type" and do(action="Type_Name"
     "do(action=\"Type\", text=\"hello, world\")",
     "do(action=\"Type_Name\", text=\"Bob\")",
     "do(action=\"Type\", text=\"hi\", enter=True)",
     "do(action=\"Type\", text=\"say \\\"hi\\\" (now)\")",
     "do(action=\"Type\", text=\"it's (1, 2)\")", "do(action=\"Type\")",
     "do(action=\"Type\", text=\"hi\" )", "do(action=\"Type\", text=name)",
     "do(action=\"Typewriter\", text=\"x\")"}

Screens == {<<1080, 2400>>, <<100, 100>>}

InputMethods == {"com.android.inputmethod.latin/.LatinIME", "com.sohu.inputmethod.sogou/.SogouIME"}

\* a Type makes four device-surface calls, the most of any command
MaxDeviceCalls == 4

\* No command calls both callbacks, and none calls both launch_app and
\* detect_and_set_adb_keyboard, so one behaviour of each pair is drawn together:
\* every behaviour of every call is among these.
Envs ==
    {env \in [faultAt : 0..MaxDeviceCalls,
              confirm : {"True", "False", "raise"},
              takeover : {"None", "raise"},
              launch : {"True", "False"},
              ime : InputMethods] :
        /\ (env.takeover = "raise") = (env.confirm = "raise")
        /\ (env.launch = "True") = (env.ime = "com.android.inputmethod.latin/.LatinIME")}

\* configurations a caller of update_timing_config builds
CustomActionTiming ==
    [keyboard_switch_delay |-> 500,
     text_clear_delay |-> 200,
     text_input_delay |-> 300,
     keyboard_restore_delay |-> 0]

\* the configuration of the example in update_timing_config's docstring
FastActionTiming ==
    [DefaultActionTiming EXCEPT !.keyboard_switch_delay = 500,
                                !.text_input_delay = 500]

CustomDeviceTiming == [DefaultDeviceTiming EXCEPT !.default_tap_delay = 500]

CustomConnectionTiming == [DefaultConnectionTiming EXCEPT !.adb_restart_delay = 5000]

-----------------------------------------------------------------------------
(* The state machine.                                                       *)

NoOutcome == [kind |-> "none", result |-> NoResult, exc |-> ""]

NoParse == [kind |-> "none", action |-> EmptyDict, exc |-> ""]

\* the event loop of web_ui is between requests, and has answered none
NoRequest == [op |-> "", task_id |-> "", line |-> 0, i |-> 0]
NoReply == [op |-> "", task_id |-> "", execution_id |-> 0, status |-> ""]

\* the dispatcher in a process started with no override, outside web_ui
Init ==
    /\ pc = "idle"
    /\ TIMING_CONFIG = TimingConfig
    /\ action = EmptyDict
    /\ screen = <<0, 0>>
    /\ events = <<>>
    /\ outcome = NoOutcome
    /\ instruction = ""
    /\ command = NoParse
    /\ update = NoConfig
    /\ configured = NoConfig
    /\ environ = {}
    /\ executions = <<>>
    /\ threads = <<>>
    /\ request = NoRequest
    /\ reply = NoReply

\* what an execute call leaves behind
Executed(act, sc, done) ==
    /\ pc' = IF done.kind = "return" THEN "returned" ELSE "raised"
    /\ action' = act
    /\ screen' = sc
    /\ events' = done.events
    /\ outcome' = [kind |-> done.kind, result |-> done.result, exc |-> done.exc]

\* the control loop calls execute(action, screen_width, screen_height)
Execute ==
    /\ pc = "idle"
    /\ \E act \in Commands, sc \in Screens, env \in Envs :
          Executed(act, sc, execute(act, sc[1], sc[2], env))
    /\ UNCHANGED <<TIMING_CONFIG, instruction, command, update, configured>>
    /\ UNCHANGED <<environ, executions, threads, request, reply>>

\* the control loop calls parse_action(response)
Parse ==
    /\ pc = "idle"
    /\ \E text \in Instructions :
          LET done == parse_action(text)
          IN  /\ pc' = IF done.kind = "return" THEN "parsed" ELSE "parse_failed"
              /\ instruction' = text
              /\ command' = done
    /\ UNCHANGED <<TIMING_CONFIG, action, screen, events, outcome, update,
                   configured>>
    /\ UNCHANGED <<environ, executions, threads, request, reply>>

\* the caller takes the outcome; none of the functions keeps anything of the
\* call
NextCommand ==
    /\ pc \in {"returned", "raised", "parsed", "parse_failed", "updated"}
    /\ pc' = "idle"
    /\ action' = EmptyDict
    /\ screen' = <<0, 0>>
    /\ events' = <<>>
    /\ outcome' = NoOutcome
    /\ instruction' = ""
    /\ command' = NoParse
    /\ update' = NoConfig
    /\ UNCHANGED <<TIMING_CONFIG, configured>>
    /\ UNCHANGED <<environ, executions, threads, request, reply>>

\* update_timing_config(action, device, connection), between runs
UpdateTimingConfig ==
    /\ pc = "idle"
    /\ \E a \in {NoConfig, CustomActionTiming, FastActionTiming},
          d \in {NoConfig, CustomDeviceTiming},
          c \in {NoConfig, CustomConnectionTiming} :
          /\ TIMING_CONFIG' = update_timing_config(TIMING_CONFIG, a, d, c)
          /\ update' = [action |-> a, device |-> d, connection |-> c,
                        before |-> TIMING_CONFIG]
          /\ configured' = IF a # NoConfig THEN a ELSE configured
    /\ pc' = "updated"
    /\ UNCHANGED <<action, screen, events, outcome, instruction, command>>
    /\ UNCHANGED <<environ, executions, threads, request, reply>>

Next == Execute \/ Parse \/ NextCommand \/ UpdateTimingConfig

Spec == Init /\ [][Next]_vars

-----------------------------------------------------------------------------
(* Startup: the import of config/timing.py in a process whose environment  *)
(* sets some of the PHONE_AGENT_* variables.                               *)

MaxOverrides == 2

RECURSIVE Environs(_)
\* the environments with at most n of the variables set, each to a number as
\* float() reads it ("0.5", " 3 ") or to another text ("1,5", "")
Environs(n) ==
    IF n = 0 THEN {{}}
    ELSE LET fewer == Environs(n - 1)
         IN  fewer \cup
             UNION {{env \cup {<<entry.env, text>>} :
                        entry \in {e \in Entries :
                                      \A var \in env : var[1] # e.env},
                        text \in {"0.5", " 3 ", "1,5", ""}} : env \in fewer}

StartupInit ==
    /\ pc = "starting"
    /\ environ \in Environs(MaxOverrides)
    /\ TIMING_CONFIG = NoConfig
    /\ action = EmptyDict
    /\ screen = <<0, 0>>
    /\ events = <<>>
    /\ outcome = NoOutcome
    /\ instruction = ""
    /\ command = NoParse
    /\ update = NoConfig
    /\ configured = NoConfig
    /\ executions = <<>>
    /\ threads = <<>>
    /\ request = NoRequest
    /\ reply = NoReply

\* import phone_agent.config.timing (timing.py:116)
Import ==
    /\ pc = "starting"
    /\ LET done == LoadTimingConfig(environ)
       IN  /\ pc' = IF done.kind = "return" THEN "idle" ELSE "failed"
           /\ TIMING_CONFIG' = done.table
           /\ outcome' = [kind |-> done.kind, result |-> NoResult,
                          exc |-> done.exc]
    /\ UNCHANGED <<action, screen, events, instruction, command, update,
                   configured, environ, executions, threads, request, reply>>

Startup == StartupInit /\ [][Import]_vars

-----------------------------------------------------------------------------
(* WebUI: the task runner of web_ui.py.  The request handlers are           *)
(* coroutines with no await in them, so the event loop runs one at a time   *)
(* from its first line to its return; each execution's worker thread runs   *)
(* beside them.  A step is one access to the shared executions table (or    *)
(* the run of the agent), named by the line of web_ui.py it is at.          *)

\* web_ui.tasks: the tasks created, with the device each names
tasks ==
    [t1 |-> [device_id |-> "emulator-5554"],
     t2 |-> [device_id |-> "emulator-5556"]]

MaxExecutions == 2

WebInit ==
    /\ pc = "idle"
    /\ TIMING_CONFIG = TimingConfig
    /\ action = EmptyDict
    /\ screen = <<0, 0>>
    /\ events = <<>>
    /\ outcome = NoOutcome
    /\ instruction = ""
    /\ command = NoParse
    /\ update = NoConfig
    /\ configured = NoConfig
    /\ environ = {}
    /\ executions = <<>>
    /\ threads = <<>>
    /\ request = NoRequest
    /\ reply = NoReply

\* POST /tasks/{task_id}/execute
execute_task(task_id) ==
    /\ UNCHANGED <<pc, TIMING_CONFIG, action, screen, events, outcome,
                   instruction, command, update, configured, environ>>
    /\ \/ /\ request = NoRequest                          \* lines 201-202
          /\ task_id \notin DOMAIN tasks
          /\ reply' = [op |-> "execute_task", task_id |-> task_id,
                       execution_id |-> 0, status |-> "404"]
          /\ UNCHANGED <<executions, threads, request>>
       \/ /\ request = NoRequest                          \* lines 201-221
          /\ task_id \in DOMAIN tasks
          /\ Len(executions) < MaxExecutions
          /\ executions' = Append(executions,
                                  [task_id |-> task_id, thread |-> "None",
                                   agent |-> "None", status |-> "pending",
                                   result |-> "None"])
          /\ threads' = Append(threads, 169)
          /\ request' = [op |-> "execute_task", task_id |-> task_id,
                         line |-> 223, i |-> Len(executions) + 1]
          /\ UNCHANGED reply
       \/ /\ request.op = "execute_task"                  \* lines 223-230
          /\ request.task_id = task_id
          /\ executions' = [executions EXCEPT ![request.i].thread = "Thread"]
          /\ reply' = [op |-> "execute_task", task_id |-> task_id,
                       execution_id |-> request.i, status |-> "started"]
          /\ request' = NoRequest
          /\ UNCHANGED threads

\* POST /tasks/{task_id}/stop
stop_task(task_id) ==
    /\ UNCHANGED <<pc, TIMING_CONFIG, action, screen, events, outcome,
                   instruction, command, update, configured, environ>>
    /\ UNCHANGED threads
    /\ \/ /\ request = NoRequest                          \* line 236, first
          /\ request' = [op |-> "stop_task", task_id |-> task_id,
                         line |-> 237, i |-> 1]
          /\ UNCHANGED <<executions, reply>>
       \/ /\ request.op = "stop_task" /\ request.line = 237
          /\ request.task_id = task_id
          /\ IF request.i > Len(executions)               \* line 248
             THEN /\ reply' = [op |-> "stop_task", task_id |-> task_id,
                               execution_id |-> 0, status |-> "404"]
                  /\ request' = NoRequest
             ELSE /\ request' =                            \* line 237
                        IF /\ executions[request.i].task_id = task_id
                           /\ executions[request.i].status = "running"
                        THEN [request EXCEPT !.line = 240]
                        ELSE [request EXCEPT !.i = request.i + 1]
                  /\ UNCHANGED reply
          /\ UNCHANGED executions
       \/ /\ request.op = "stop_task" /\ request.line = 240  \* lines 240-246
          /\ request.task_id = task_id
          /\ executions' = [executions EXCEPT ![request.i].status = "stopped"]
          /\ reply' = [op |-> "stop_task", task_id |-> task_id,
                       execution_id |-> request.i, status |-> "stopped"]
          /\ request' = NoRequest

\* the worker thread of execution e
run_task_execution(e) ==
    /\ UNCHANGED <<pc, TIMING_CONFIG, action, screen, events, outcome,
                   instruction, command, update, configured, environ>>
    /\ UNCHANGED <<request, reply>>
    /\ \/ /\ threads[e] = 169                             \* line 169
          /\ executions' = [executions EXCEPT ![e].status = "running"]
          /\ threads' = [threads EXCEPT ![e] = 172]
       \/ /\ threads[e] = 172                             \* lines 172-187
          /\ executions' = [executions EXCEPT ![e].agent = "PhoneAgent"]
          /\ threads' = [threads EXCEPT ![e] = 190]
       \/ /\ threads[e] = 190                             \* lines 190-191
          /\ executions' = [executions EXCEPT ![e].result = "result"]
          /\ threads' = [threads EXCEPT ![e] = 192]
       \/ /\ threads[e] = 192                             \* line 192
          /\ executions' = [executions EXCEPT ![e].status = "completed"]
          /\ threads' = [threads EXCEPT ![e] = 0]
       \/ /\ threads[e] \in {172, 190}     \* an exception; lines 194-195
          /\ executions' = [executions EXCEPT ![e].result = "str(e)"]
          /\ threads' = [threads EXCEPT ![e] = 196]
       \/ /\ threads[e] = 196                             \* line 196
          /\ executions' = [executions EXCEPT ![e].status = "failed"]
          /\ threads' = [threads EXCEPT ![e] = 0]

WebNext ==
    \/ \E task_id \in DOMAIN tasks \cup {"t0"} : execute_task(task_id)
    \/ \E task_id \in DOMAIN tasks \cup {"t0"} : stop_task(task_id)
    \/ \E e \in DOMAIN executions : run_task_execution(e)

WebUI == WebInit /\ [][WebNext]_vars

-----------------------------------------------------------------------------
(* Properties of the dispatcher.                                            *)

\* an execute call has been made and has ended
Called == pc \in {"returned", "raised"}

IsDo == Get(action, "_metadata") = PyStr("do")
ActionIs(names) == Get(action, "action") \in {PyStr(n) : n \in names}

Positions == 1..Len(events)
Made(ops) == {i \in Positions : events[i].op \in ops}
Returned(success, should_finish) ==
    /\ pc = "returned"
    /\ outcome.result.success = success
    /\ outcome.result.should_finish = should_finish
NonEmptyMessage ==
    outcome.result.message.t = "str" /\ outcome.result.message.s # ""

Declined ==
    \E i \in Made({"confirmation_callback"}) : events[i].out = "False"

SensitiveTap ==
    /\ Called /\ IsDo /\ ActionIs({"Tap"})
    /\ "element" \in DOMAIN action /\ "message" \in DOMAIN action

\* C1: a Tap with an element and a message whose confirmation callback returns
\* false ends with success=false, should_finish=true, and no tap is issued.
C1_DeclinedTapAborts ==
    (SensitiveTap /\ Declined) => (Returned(FALSE, TRUE) /\ Made({"tap"}) = {})

C1_Witness == SensitiveTap /\ Declined /\ pc = "returned"

\* C2: in a Tap, Double Tap or Long Press that carries a message, every gesture
\* issued comes after a confirmation callback call that returned true.
C2_GestureOnlyAfterConfirmation ==
    (Called /\ IsDo /\ ActionIs({"Tap", "Double Tap", "Long Press"})
        /\ "message" \in DOMAIN action)
    => \A i \in Made({"tap", "double_tap", "long_press"}) :
          \E j \in Made({"confirmation_callback"}) : j < i /\ events[j].out = "True"

NoFault == \A i \in Positions : ~Failed(events[i])

TypeCall == Called /\ IsDo /\ ActionIs({"Type", "Type_Name"})

\* C3: a Type or Type_Name with no fault makes exactly these calls, in this
\* order: switch keyboard, wait keyboard_switch_delay, clear, wait
\* text_clear_delay, type the command's text, wait text_input_delay, restore
\* the captured input method, wait keyboard_restore_delay; and returns
\* success=true, should_finish=false.
C3_TypeSequence ==
    (TypeCall /\ NoFault) =>
        /\ Returned(TRUE, FALSE)
        /\ Len(events) = 8
        /\ events[1].op = "detect_and_set_adb_keyboard"
        /\ events[1].out \in InputMethods
        /\ events[2] = Sleep(TIMING_CONFIG.action.keyboard_switch_delay)
        /\ events[3].op = "clear_text"
        /\ events[4] = Sleep(TIMING_CONFIG.action.text_clear_delay)
        /\ events[5].op = "type_text"
        /\ events[5].arg = GetOr(action, "text", PyStr(""))
        /\ events[6] = Sleep(TIMING_CONFIG.action.text_input_delay)
        /\ events[7].op = "restore_keyboard"
        /\ events[7].arg = PyStr(events[1].out)
        /\ events[8] = Sleep(TIMING_CONFIG.action.keyboard_restore_delay)

C3_Witness ==
    /\ TypeCall /\ NoFault /\ pc = "returned"
    /\ "text" \in DOMAIN action
    /\ TIMING_CONFIG.action = CustomActionTiming

Switched ==
    {i \in Made({"detect_and_set_adb_keyboard"}) : ~Failed(events[i])}

\* C4: in a Type or Type_Name whose switch to the automation keyboard was
\* performed, restore_keyboard has been called with the captured input method
\* by the time execute ends.
C4_KeyboardRestored ==
    TypeCall =>
        \A i \in Switched :
            \E j \in Made({"restore_keyboard"}) :
                j > i /\ events[j].arg = PyStr(events[i].out)

DeviceFaults == {i \in Made(DeviceOps) : Failed(events[i])}

\* C5: when a device-surface call of a do command with a known action raises,
\* execute returns success=false, should_finish=false and a message that
\* carries the message of what was raised.
C5_DeviceFaultReported ==
    (Called /\ IsDo /\ ActionIs(KnownActions)) =>
        \A i \in DeviceFaults :
            /\ Returned(FALSE, FALSE)
            /\ outcome.result.message = PyStr("Action failed: " \o events[i].exc)

C5_Witness ==
    /\ Called /\ IsDo /\ ActionIs(KnownActions)
    /\ DeviceFaults # {}
    /\ pc = "returned"

\* C6: execute always returns an ActionResult: no exception leaves it.
C6_ExecuteTotal == pc # "raised"

\* C7: a finish command returns success=true, should_finish=true and the
\* command's message, and calls neither the device nor a callback.
C7_Finish ==
    (Called /\ Get(action, "_metadata") = PyStr("finish")) =>
        /\ Returned(TRUE, TRUE)
        /\ outcome.result.message = Get(action, "message")
        /\ events = <<>>

C7_Witness ==
    /\ pc = "returned"
    /\ Get(action, "_metadata") = PyStr("finish")
    /\ Get(action, "message") = PyStr("done")

UnknownType ==
    /\ Called
    /\ Get(action, "_metadata") \notin {PyStr("do"), PyStr("finish")}

\* C8: a command whose discriminator is neither do nor finish, or is absent,
\* returns success=false, should_finish=true and a non-empty message, and
\* calls neither the device nor a callback.
C8_UnknownDiscriminator ==
    UnknownType => (Returned(FALSE, TRUE) /\ NonEmptyMessage /\ events = <<>>)

C8_Witness ==
    /\ UnknownType /\ pc = "returned"
    /\ "_metadata" \notin DOMAIN action

\* C9: a do command whose action is none of the fourteen known names, or is
\* absent, returns success=false, should_finish=false and makes no device call.
C9_UnknownAction ==
    (Called /\ IsDo /\ ~ActionIs(KnownActions)) =>
        (Returned(FALSE, FALSE) /\ Made(DeviceOps) = {})

MissingArgument ==
    \/ ActionIs({"Launch"}) /\ ~Truthy(Get(action, "app"))
    \/ ActionIs({"Tap", "Double Tap", "Long Press"}) /\ "element" \notin DOMAIN action
    \/ ActionIs({"Swipe"}) /\ ("start" \notin DOMAIN action \/ "end" \notin DOMAIN action)

\* C10: a Launch without a non-empty app, a Tap, Double Tap or Long Press
\* without element, and a Swipe lacking start or end return success=false,
\* should_finish=false and a non-empty message, with no device call made and
\* the confirmation callback not called.
C10_MissingArgument ==
    (Called /\ IsDo /\ MissingArgument) =>
        /\ Returned(FALSE, FALSE)
        /\ NonEmptyMessage
        /\ Made(DeviceOps \cup {"confirmation_callback"}) = {}

C10_Witness ==
    /\ Called /\ IsDo /\ MissingArgument /\ pc = "returned"
    /\ ActionIs({"Tap"})
    /\ "message" \in DOMAIN action

WaitCall == Called /\ IsDo /\ ActionIs({"Wait"}) /\ "duration" \in DOMAIN action

\* the duration is not the text of a number followed by the unit word
Unparsable(duration) ==
    \/ duration.t # "str"
    \/ ~ParseFloat(Strip(Replace(duration.s, "seconds", ""))).ok

\* C11: a Wait whose duration cannot be parsed as a number followed by the
\* unit word (a text in another shape, or a value that is not a text) sleeps
\* the default 1.0 second and returns success=true, should_finish=false.
C11_MalformedWaitDefaults ==
    (WaitCall /\ Unparsable(action["duration"])) =>
        (Returned(TRUE, FALSE) /\ events = <<Sleep(1000)>>)

TakeoverCall == Called /\ IsDo /\ ActionIs({"Take_over"})

TakeoverCalledOnce ==
    /\ Len(events) = 1
    /\ events[1].op = "takeover_callback"
    /\ events[1].arg = GetOr(action, "message", PyStr("User intervention required"))

\* C12 as stated: a Take_over calls the takeover callback exactly once, with
\* the command's message or the default text, makes no device call, and always
\* returns success=true, should_finish=false.
C12_TakeoverAlwaysSucceeds ==
    TakeoverCall => (TakeoverCalledOnce /\ Returned(TRUE, FALSE))

\* C12 as amended: a Take_over calls the takeover callback exactly once, with
\* the command's message or the default text, and makes no device call; when
\* the callback returns, execute returns success=true, should_finish=false;
\* when the callback raises, execute returns success=false,
\* should_finish=false and the message of what was raised.
C12_TakeoverReported ==
    TakeoverCall =>
        /\ TakeoverCalledOnce
        /\ ~Failed(events[1]) => Returned(TRUE, FALSE)
        /\ Failed(events[1]) =>
              /\ Returned(FALSE, FALSE)
              /\ outcome.result.message = PyStr("Action failed: " \o events[1].exc)

C12_Witness ==
    /\ TakeoverCall /\ pc = "returned"
    /\ "message" \in DOMAIN action
    /\ Len(events) = 1 /\ ~Failed(events[1])

LaunchNotFound ==
    /\ Called /\ IsDo /\ ActionIs({"Launch"})
    /\ \E i \in Made({"launch_app"}) : events[i].out = "False"

\* C13: a do command returns should_finish=true only if the confirmation
\* callback was called in that call and returned false; a Launch whose
\* launch_app returned false returns success=false, should_finish=false.
C13_OnlyDeclineIsFatal ==
    /\ (Called /\ IsDo /\ pc = "returned" /\ outcome.result.should_finish) => Declined
    /\ LaunchNotFound => Returned(FALSE, FALSE)

C13_Witness == LaunchNotFound /\ pc = "returned"

\* floor(n * dim / 1000) for n, dim >= 0
Floor(n, dim) == (n * dim) \div 1000

\* the pixels the spec gives for the logical point held by field
FloorPoint(field) ==
    <<Floor(action[field].v[1], screen[1]), Floor(action[field].v[2], screen[2])>>

\* field holds a logical point: two integers in 0..1000
LogicalPoint(field) ==
    /\ field \in DOMAIN action
    /\ action[field].t = "list"
    /\ Len(action[field].v) = 2
    /\ \A k \in 1..2 : action[field].v[k] \in 0..1000

\* C19: the pixels passed to the device by Tap, Double Tap and Long Press, and
\* for both ends of a Swipe, are (floor(x*w/1000), floor(y*h/1000)) of the
\* logical point (x, y) on a screen of w by h.
C19_FloorConversion ==
    /\ (Called /\ IsDo /\ LogicalPoint("element")) =>
          \A i \in Made({"tap", "double_tap", "long_press"}) :
              events[i].xy = FloorPoint("element")
    /\ (Called /\ IsDo /\ LogicalPoint("start") /\ LogicalPoint("end")) =>
          \A i \in Made({"swipe"}) :
              events[i].xy = FloorPoint("start") \o FloorPoint("end")

NoEffectCall == Called /\ IsDo /\ ActionIs({"Note", "Call_API", "Interact"})

\* C20: a Note, Call_API or Interact makes no device call and calls neither
\* callback, and returns success=true, should_finish=false; the result of an
\* Interact carries a non-empty message.
C20_NoEffectActions ==
    NoEffectCall =>
        /\ events = <<>>
        /\ Returned(TRUE, FALSE)
        /\ ActionIs({"Interact"}) => NonEmptyMessage

C20_Witness == NoEffectCall /\ ActionIs({"Interact"}) /\ pc = "returned"

-----------------------------------------------------------------------------
(* Properties of the parser.                                                *)

\* a parse_action call has been made and has ended
ParseCalled == pc \in {"parsed", "parse_failed"}

\* it returned a command
Accepted == pc = "parsed" /\ command.kind = "return"

\* it raised ValueError and returned no command
Rejected ==
    /\ pc = "parse_failed"
    /\ command.kind = "raise" /\ command.exc = "ValueError"
    /\ command.action = EmptyDict

\* the instruction with the whitespace around it removed
Trimmed == Strip(instruction)

\* C14: an instruction that, trimmed, starts with neither do nor finish is
\* rejected with ValueError, and no command is returned.
C14_OtherTextRejected ==
    (ParseCalled /\ ~StartsWith(Trimmed, "do") /\ ~StartsWith(Trimmed, "finish"))
        => Rejected

C14_Witness == Rejected /\ instruction = "I will finish(message=\"x\")"

\* C15: every instruction that is accepted is a call of do or a
\* finish(message=...) call; a text that only begins with finish, or whose
\* callee only begins with do, is rejected.
C15_OnlyRecognizedShapes ==
    Accepted => (StartsWith(Trimmed, "do(") \/ StartsWith(Trimmed, "finish(message="))

\* the instruction takes the path of the Type forms
TypeForm ==
    \/ StartsWith(Trimmed, "do(action=\"Type\"")
    \/ StartsWith(Trimmed, "do(action=\"Type_Name\"")

GenericForm == StartsWith(Trimmed, "do") /\ ~TypeForm

\* C16: a generic do(...) in which a keyword value holds a function call, an
\* attribute access or a name that is no literal constant is rejected with
\* ValueError.
C16_NonLiteralRejected ==
    (ParseCalled /\ GenericForm /\ instruction \in NonLiteralTexts) => Rejected

Number(x) == x.t \in {"int", "float"}

\* a number, a string, a boolean or an ordered sequence of numbers
Admissible(x) ==
    \/ Number(x) \/ x.t \in {"str", "bool", "list"}
    \/ x.t \in {"list[object]", "tuple"} /\ \A i \in 1..Len(x.v) : Number(x.v[i])

\* C17: the keyword values of a command returned for a generic do(...) are
\* numbers, strings, booleans and ordered sequences of numbers only.
C17_OnlyAdmissibleValues ==
    (Accepted /\ GenericForm) =>
        \A key \in DOMAIN command.action \ {"_metadata"} :
            Admissible(command.action[key])

\* text payloads of a Type instruction
Payloads == {"hello, world", "Bob", "it's (1, 2)", "say \"hi\" (now)"}

\* payload as a string literal in double quotes
Quoted(payload) == "\"" \o Replace(payload, "\"", "\\\"") \o "\""

\* C18: an accepted instruction gives a command with the discriminator do or
\* finish; an accepted do(action="<Name>", ...) gives the action <Name>
\* (Type_Name stays Type_Name); do(action="Tap", element=[500,500]) gives
\* the element [500, 500]; a Type or Type_Name gives the text of its payload,
\* also when that holds commas, spaces, quotes or parentheses.
C18_ParsedAsWritten ==
    /\ Accepted =>
          Get(command.action, "_metadata") \in {PyStr("do"), PyStr("finish")}
    /\ \A name \in KnownActions :
          (Accepted /\ StartsWith(Trimmed, "do(action=\"" \o name \o "\"")) =>
              Get(command.action, "action") = PyStr(name)
    /\ (ParseCalled /\ instruction = "do(action=\"Tap\", element=[500,500])") =>
          /\ Accepted
          /\ command.action = [_metadata |-> PyStr("do"), action |-> PyStr("Tap"),
                               element |-> PyList(<<500, 500>>)]
    /\ \A name \in {"Type", "Type_Name"}, payload \in Payloads :
          (ParseCalled /\ instruction = "do(action=\"" \o name \o "\", text="
                                          \o Quoted(payload) \o ")") =>
              (Accepted /\ Get(command.action, "text") = PyStr(payload))

-----------------------------------------------------------------------------
(* Properties of the timing table.                                          *)

\* the four waits of a Type under an action group, in order
TypeWaits(group) ==
    <<Sleep(group.keyboard_switch_delay), Sleep(group.text_clear_delay),
      Sleep(group.text_input_delay), Sleep(group.keyboard_restore_delay)>>

\* C25: once update_timing_config has been given an action group, every Type
\* dispatch after it waits that group's four delays, in order (all four when
\* no call fails); and a call of update_timing_config leaves every group it
\* is given None for as it was, and installs every group it is given.
C25_HotSwapFramed ==
    /\ (TypeCall /\ configured # NoConfig) =>
          /\ \A i \in 1..4 :
                2 * i <= Len(events) => events[2 * i] = TypeWaits(configured)[i]
          /\ NoFault => Len(events) = 8
    /\ pc = "updated" =>
          \A group \in {"action", "device", "connection"} :
              TIMING_CONFIG[group] = IF update[group] = NoConfig
                                     THEN update.before[group]
                                     ELSE update[group]

C25_Witness ==
    /\ TypeCall /\ NoFault /\ pc = "returned"
    /\ configured = FastActionTiming
    /\ TIMING_CONFIG.device = CustomDeviceTiming
    /\ TIMING_CONFIG.connection = DefaultConnectionTiming

\* the override texts that are numbers, with the delay each stands for, and
\* those that are not
WellFormed == {<<"0.5", 500>>, <<" 3 ", 3000>>}
Malformed_Texts == {"1,5", ""}

Overrides(entry) == {var \in environ : var[1] = entry.env}
Loaded(entry) == TIMING_CONFIG[entry.group][entry.field]

\* the entry holds its well-formed override, and its default otherwise
AsConfigured(entry) ==
    \/ \E var \in Overrides(entry), wf \in WellFormed :
          var[2] = wf[1] /\ Loaded(entry) = wf[2]
    \/ /\ \A var \in Overrides(entry) : var[2] \in Malformed_Texts
       /\ Loaded(entry) = entry.default

MalformedOverride == \E var \in environ : var[2] \in Malformed_Texts

\* C22 as stated: the import of the timing table never fails; an entry whose
\* override is not a number holds its default, an entry with a well-formed
\* override holds the override, an entry with none holds its default.
C22_MalformedOverrideFallsBack ==
    pc # "starting" =>
        (pc = "idle" /\ \A entry \in Entries : AsConfigured(entry))

\* C22 as amended: when some override present is not a number the import
\* fails with ValueError and no table is made; otherwise every entry with an
\* override holds the override and every entry without one its default.
C22_MalformedOverrideFails ==
    pc # "starting" =>
        IF MalformedOverride
        THEN pc = "failed" /\ outcome.exc = "ValueError"
                /\ TIMING_CONFIG = NoConfig
        ELSE /\ pc = "idle" /\ \A entry \in Entries : AsConfigured(entry)
             /\ environ = {} => TIMING_CONFIG = TimingConfig

C22_Witness ==
    /\ pc = "failed"
    /\ <<"PHONE_AGENT_TAP_DELAY", "1,5">> \in environ
    /\ <<"PHONE_AGENT_TEXT_INPUT_DELAY", "0.5">> \in environ

-----------------------------------------------------------------------------
(* Properties of the task runner.                                           *)

Device(e) == tasks[executions[e].task_id].device_id

\* execution e is in the running state and its worker is in agent.run
Driving(e) == executions[e].status = "running" /\ threads[e] = 190

\* C21: no two executions whose tasks name the same device are in the running
\* state, each driving an agent, at the same time.
C21_SameDeviceSerialized ==
    \A e, f \in DOMAIN executions :
        (e # f /\ Device(e) = Device(f)) => ~(Driving(e) /\ Driving(f))

\* C23: an execution whose status is stopped (only stop_task sets it) has the
\* status stopped after every step.
C23_StopIsFinal ==
    [][\A e \in DOMAIN executions :
          executions[e].status = "stopped" => executions'[e].status = "stopped"]_vars

\* execute_task has returned "started" for execution e
Started(e) == executions[e].thread = "Thread"

\* C24: stop_task answers 404 for a task only when no execution of the task
\* that execute_task has started is still pending or running.
C24_StartedCanBeStopped ==
    (reply.op = "stop_task" /\ reply.status = "404") =>
        \A e \in DOMAIN executions :
            (executions[e].task_id = reply.task_id /\ Started(e)) =>
                executions[e].status \notin {"pending", "running"}

====
